---- MODULE Spec2Model ----
(***************************************************************************)
(* Model of omf/lineset.py: LineSetGeometry (vertices, segments, counts,   *)
(* _validate_mesh) and LineSetElement.toVTK (points, line cells, the       *)
(* 'Line Index' grouping array and the attribute arrays).                  *)
(*                                                                         *)
(* Python indices are 0-based: seg[0]/seg[1] of the source are seg[1] and  *)
(* seg[2] of a TLA+ tuple, entry i of an array is element i+1 of a         *)
(* sequence.  Vertex indices stored in segments keep their Python values.  *)
(***************************************************************************)
EXTENDS Integers, Sequences, FiniteSets

VARIABLES vertices, segments, data, validated, output

vars == <<vertices, segments, data, validated, output>>

(***************************************************************************)
(* Bounds of the model.                                                    *)
(***************************************************************************)
MaxVerts == 2
MaxIndex == 1
MaxSegs == 2
MaxExportSegs == 3
MaxData == 2
MaxArr == 2

\* sequences over S of length 0..n
SeqUpTo(S, n) == UNION {[1..k -> S] : k \in 0..n}

\* a vertex is a 3-component coordinate
Coords == {<<0, 0, 0>>, <<1, 0, 0>>}
VertexInputs == SeqUpTo(Coords, MaxVerts)

\* a segment is a pair of integers; -1 is a negative index, and MaxIndex is
\* out of range for the shorter vertex sequences
IndexValues == -1..MaxIndex
SegmentInputs == SeqUpTo(IndexValues \X IndexValues, MaxSegs)
ExportSegmentInputs == SeqUpTo(IndexValues \X IndexValues, MaxExportSegs)

\* an attribute of the element: name, location and array
AttrNames == {"a", "b"}
AttrArrays == SeqUpTo({7}, MaxArr)
AttrInputs == [name : AttrNames, location : {"vertices", "segments"},
               array : AttrArrays]
DataInputs == SeqUpTo(AttrInputs, MaxData)

\* location values passed to location_length
LocationInputs == {"vertices", "segments", "faces"}

(***************************************************************************)
(* LineSetGeometry                                                         *)
(***************************************************************************)
num_nodes(verts) == Len(verts)

num_cells(segs) == Len(segs)

location_length_swapped(verts, segs, location) ==
    IF location = "vertices" THEN num_nodes(verts) ELSE num_cells(segs)

location_length(verts, segs, location) ==
    IF location = "segments" THEN num_cells(segs) ELSE num_nodes(verts)

\* all the entries of the segment array, as np.min / np.max see them
Entries(segs) == {segs[i][j] : i \in 1..Len(segs), j \in 1..2}

np_min(segs) == CHOOSE m \in Entries(segs) : \A e \in Entries(segs) : m <= e

np_max(segs) == CHOOSE m \in Entries(segs) : \A e \in Entries(segs) : m >= e

ZeroSizeError == "ValueError: zero-size array to reduction operation minimum which has no identity"
NegativeError == "ValueError: Segments may only have positive integers"
MoreVerticesError == "ValueError: Segments expects more vertices than provided"

\* an empty segment array passes
validate_mesh_emptyok(verts, segs) ==
    IF Entries(segs) = {} THEN "True"
    ELSE IF np_min(segs) < 0 THEN NegativeError
    ELSE IF np_max(segs) >= Len(verts) THEN MoreVerticesError
    ELSE "True"

\* _validate_mesh: "True", or the error it raises.  np.min of an array
\* without elements raises before any comparison is made.
validate_mesh(verts, segs) ==
    IF Entries(segs) = {} THEN ZeroSizeError
    ELSE IF np_min(segs) < 0 THEN NegativeError
    ELSE IF np_max(segs) >= Len(verts) THEN MoreVerticesError
    ELSE "True"

(***************************************************************************)
(* LineSetElement.toVTK                                                    *)
(***************************************************************************)
\* nps.numpy_to_vtk: a new array holding the elements in order
numpy_to_vtk(arr) == [i \in 1..Len(arr) |-> arr[i]]

\* vtkFieldData.AddArray: an array whose name is already present replaces
\* the one of that name, any other is appended
AddArray(coll, name, arr) ==
    IF \E k \in 1..Len(coll) : coll[k].name = name
    THEN [k \in 1..Len(coll) |->
            IF coll[k].name = name THEN [name |-> name, array |-> arr]
            ELSE coll[k]]
    ELSE Append(coll, [name |-> name, array |-> arr])

aLine_reversed(seg) == <<seg[2], seg[1]>>

\* the vtkLine of a segment: point id 0 is seg[0], point id 1 is seg[1]
aLine(seg) == <<seg[1], seg[2]>>

\* compares with the previous start instead of the previous end
GroupStep_start(st, seg) ==
    LET segi == IF seg[1] # st.last THEN st.segi + 1 ELSE st.segi
    IN  [last |-> seg[1], segi |-> segi,
         cells |-> Append(st.cells, aLine(seg)),
         indexArr |-> Append(st.indexArr, segi)]

\* one iteration of the loop over the segments
GroupStep(st, seg) ==
    LET segi == IF seg[1] # st.last THEN st.segi + 1 ELSE st.segi
    IN  [last |-> seg[2], segi |-> segi,
         cells |-> Append(st.cells, aLine(seg)),
         indexArr |-> Append(st.indexArr, segi)]

RECURSIVE GroupLoop(_, _, _)
GroupLoop(st, segs, i) ==
    IF i > Len(segs) THEN st
    ELSE GroupLoop(GroupStep(st, segs[i]), segs, i + 1)

RECURSIVE AddData(_, _, _)
AddData(cellData, dat, k) ==
    IF k > Len(dat) THEN cellData
    ELSE AddData(AddArray(cellData, dat[k].name, numpy_to_vtk(dat[k].array)),
                 dat, k + 1)

NoOutput == [op |-> "none"]

\* the value toVTK returns, or the error it raises
toVTK(verts, segs, dat) ==
    IF Len(segs) = 0
    THEN [op |-> "toVTK", status |-> "IndexError"]
    ELSE LET st == GroupLoop([last |-> segs[1][1], segi |-> 0,
                              cells |-> <<>>, indexArr |-> <<>>], segs, 1)
         IN  [op |-> "toVTK", status |-> "ok",
              points |-> numpy_to_vtk(verts),
              cells |-> st.cells,
              pointData |-> <<>>,
              cellData |-> AddData(AddArray(<<>>, "Line Index", st.indexArr),
                                   dat, 1)]

(***************************************************************************)
(* Operations                                                              *)
(***************************************************************************)
\* geometry.vertices = v
SetVertices ==
    \E v \in VertexInputs :
        /\ vertices' = v
        /\ validated' = "unchecked"
        /\ output' = NoOutput
        /\ UNCHANGED <<segments, data>>

\* geometry.segments = s
SetSegments ==
    \E s \in SegmentInputs :
        /\ segments' = s
        /\ validated' = "unchecked"
        /\ output' = NoOutput
        /\ UNCHANGED <<vertices, data>>

\* geometry.validate(): runs the class validator _validate_mesh
Validate ==
    /\ validated' = validate_mesh(vertices, segments)
    /\ output' = NoOutput
    /\ UNCHANGED <<vertices, segments, data>>

NumNodes ==
    /\ output' = [op |-> "num_nodes", value |-> num_nodes(vertices)]
    /\ UNCHANGED <<vertices, segments, data, validated>>

NumCells ==
    /\ output' = [op |-> "num_cells", value |-> num_cells(segments)]
    /\ UNCHANGED <<vertices, segments, data, validated>>

LocationLength ==
    \E location \in LocationInputs :
        /\ output' = [op |-> "location_length", arg |-> location,
                      value |-> location_length(vertices, segments, location)]
        /\ UNCHANGED <<vertices, segments, data, validated>>

\* an export that consumes the attribute collection
ToVTK_consuming ==
    /\ output' = toVTK(vertices, segments, data)
    /\ data' = <<>>
    /\ UNCHANGED <<vertices, segments, validated>>

ToVTK ==
    /\ output' = toVTK(vertices, segments, data)
    /\ UNCHANGED <<vertices, segments, data, validated>>

(***************************************************************************)
(* Specifications                                                          *)
(***************************************************************************)
\* a geometry built from arrays, then reassigned, validated and read
Init ==
    /\ vertices \in VertexInputs
    /\ segments \in SegmentInputs
    /\ data = <<>>
    /\ validated = "unchecked"
    /\ output = NoOutput

Next ==
    \/ SetVertices
    \/ SetSegments
    \/ Validate
    \/ NumNodes
    \/ NumCells
    \/ LocationLength
    \/ ToVTK

Spec == Init /\ [][Next]_vars

\* exports of elements without attributes, over longer segment sequences
InitExport ==
    /\ vertices \in VertexInputs
    /\ segments \in ExportSegmentInputs
    /\ data = <<>>
    /\ validated = "unchecked"
    /\ output = NoOutput

NextExport == ToVTK

SpecExport == InitExport /\ [][NextExport]_vars

\* exports of elements with attributes
InitAttributes ==
    /\ vertices \in VertexInputs
    /\ segments \in SegmentInputs
    /\ data \in DataInputs
    /\ validated = "unchecked"
    /\ output = NoOutput

NextAttributes == ToVTK

SpecAttributes == InitAttributes /\ [][NextAttributes]_vars

(***************************************************************************)
(* Properties                                                              *)
(***************************************************************************)
\* every start and end index of every segment names an existing vertex
InRange(verts, segs) ==
    \A i \in 1..Len(segs) : \A j \in 1..2 :
        segs[i][j] >= 0 /\ segs[i][j] < Len(verts)

\* positions of the arrays of a given name in a data collection
Named(coll, name) == {k \in 1..Len(coll) : coll[k].name = name}

Exported == output.op = "toVTK"

ExportedMesh == output.op = "toVTK" /\ output.status = "ok"

\* C1 (as stated): validation accepts if and only if every segment index
\* lies in [0, num_nodes), whatever the vertex count and the segments.
C1_AcceptsIffInRange ==
    validated # "unchecked" =>
        ((validated = "True") <=> InRange(vertices, segments))

\* C2 (as stated): validation gates every assignment, so in every state a
\* consumer can observe, in particular whenever toVTK has run, all segment
\* indices name an existing vertex.
C2_NoInvalidGeometryObservable ==
    Exported => InRange(vertices, segments)

\* C3: the 'Line Index' array has one entry per segment, entry 0 is 0, and
\* entry i is entry i-1 plus 1 when start[i] # end[i-1], entry i-1 otherwise.
C3_LineIndex ==
    (Exported /\ Len(segments) > 0) =>
        /\ output.status = "ok"
        /\ Cardinality(Named(output.cellData, "Line Index")) = 1
        /\ LET li == output.cellData[
                         CHOOSE k \in Named(output.cellData, "Line Index") : TRUE
                     ].array
           IN  /\ Len(li) = Len(segments)
               /\ li[1] = 0
               /\ \A i \in 2..Len(segments) :
                     li[i] = IF segments[i][1] # segments[i - 1][2]
                             THEN li[i - 1] + 1
                             ELSE li[i - 1]

\* a chain, then two segments sharing only their end vertex
C3_Witness ==
    /\ ExportedMesh
    /\ Len(segments) = 3
    /\ segments[2][1] = segments[1][2]
    /\ segments[3][2] = segments[2][2]
    /\ segments[3][1] # segments[2][2]
    /\ output.cellData[1].array = <<0, 0, 1>>

\* C4 (as stated): an export of an empty segment sequence fails with the
\* EmptyGeometry error and produces no mesh.
C4_EmptyGeometryError ==
    (Exported /\ Len(segments) = 0) => output.status = "EmptyGeometry"

\* C5 (as stated): every attribute's array is in the output exactly once
\* under its name, in node data when its location is 'vertices' and in cell
\* data when its location is 'segments', and not in the other collection.
C5_AttributesByLocation ==
    ExportedMesh =>
        \A k \in 1..Len(data) :
            LET own   == IF data[k].location = "vertices"
                         THEN output.pointData ELSE output.cellData
                other == IF data[k].location = "vertices"
                         THEN output.cellData ELSE output.pointData
            IN  /\ Cardinality(Named(own, data[k].name)) = 1
                /\ \A n \in Named(own, data[k].name) :
                       own[n].array = data[k].array
                /\ Named(other, data[k].name) = {}

\* C6 (as stated): an export with an attribute whose array length differs
\* from location_length(its location) fails with AttributeLengthMismatch.
C6_AttributeLengthChecked ==
    (Exported /\ \E k \in 1..Len(data) :
                    Len(data[k].array) #
                        location_length(vertices, segments, data[k].location))
        => output.status = "AttributeLengthMismatch"

\* C7: a successful export has one point per vertex in vertex order and one
\* line cell per segment in segment order, cell i holding exactly
\* (start[i], end[i]).
C7_PointsAndCells ==
    ExportedMesh =>
        /\ Len(output.points) = Cardinality(DOMAIN vertices)
        /\ \A i \in DOMAIN vertices : output.points[i] = vertices[i]
        /\ Len(output.cells) = Cardinality(DOMAIN segments)
        /\ \A i \in DOMAIN segments :
              /\ Len(output.cells[i]) = 2
              /\ output.cells[i][1] = segments[i][1]
              /\ output.cells[i][2] = segments[i][2]

C7_Witness ==
    /\ ExportedMesh
    /\ Len(vertices) = 2 /\ vertices[1] # vertices[2]
    /\ Len(segments) = 3
    /\ segments[1][1] # segments[1][2]
    /\ segments[2] # segments[1]

\* C8: num_nodes is the number of vertices, num_cells the number of
\* segments, location_length is num_cells for 'segments' and num_nodes for
\* any other location, and none of them changes the stored sequences.
C8_Counts ==
    [][/\ output'.op = "num_nodes" =>
            /\ output'.value = Cardinality(DOMAIN vertices)
            /\ UNCHANGED <<vertices, segments>>
       /\ output'.op = "num_cells" =>
            /\ output'.value = Cardinality(DOMAIN segments)
            /\ UNCHANGED <<vertices, segments>>
       /\ output'.op = "location_length" =>
            /\ output'.value = IF output'.arg = "segments"
                               THEN Cardinality(DOMAIN segments)
                               ELSE Cardinality(DOMAIN vertices)
            /\ UNCHANGED <<vertices, segments>>]_vars

\* a location outside the valid ones, with different counts
C8_Witness ==
    /\ output.op = "location_length"
    /\ output.arg = "faces"
    /\ Len(vertices) # Len(segments)
    /\ output.value = Len(vertices)

\* C9: an export, successful or not, leaves vertices, segments and the
\* attributes unchanged, and a second export of the unchanged element
\* returns the same value.
C9_ExportReadOnly ==
    [][output'.op = "toVTK" =>
          /\ UNCHANGED <<vertices, segments, data>>
          /\ output.op = "toVTK" => output' = output]_vars

C9_Witness ==
    /\ ExportedMesh
    /\ Len(data) = 2
    /\ Len(segments) = 2
    /\ Len(vertices) = 2

\* C10: a geometry on which _validate_mesh returned True has at least one
\* segment, so its export does not fail on the read of the first segment.
C10_ValidatedHasSegment ==
    validated = "True" =>
        /\ Cardinality(DOMAIN segments) >= 1
        /\ Exported => output.status # "IndexError"

C10_Witness ==
    /\ validated = "True"
    /\ ExportedMesh
    /\ Len(segments) = 1

====
